---- MODULE Spec2Model ----
(***************************************************************************)
(* Model of the nclaude message hub (scripts/hub.py): the session registry *)
(* (clients / client_sessions), the select loop's handlers and the routing *)
(* of newline-delimited JSON frames between connected sockets.             *)
(***************************************************************************)
EXTENDS Integers, Sequences, FiniteSets, TLC

\* ------------------------------------------------------------------ bounds
NConn == 3          \* sockets that ever connect to the hub
MaxFrames == 2      \* frames carried by one recv()
MaxTo == 2          \* length of a message's "to" list
SndBuf == 2         \* frames a socket's send buffer holds before EAGAIN
MaxMsgs == 2        \* application messages the hub forwards to one client
MaxSends == 2       \* send() calls one client makes
MaxRecvs == 2       \* recv() calls one client makes
MaxConnects == 2    \* connect() calls, and disconnect() calls, one client makes
MaxLines == 3       \* lines the peer writes to one client, character by character
MaxClock == 3       \* seconds the hub's clock advances
MaxStamped == 3     \* application messages the hub stamps
MaxAppended == 3    \* lines appended to the message log
MaxReads == 3       \* read() calls of the reading session

Conns == 1..NConn
Ids == {"a", "b"}
None == "None"      \* Python None / missing / empty value
NoSock == 0         \* dict.get() miss in clients

\* ------------------------------------------------------------------ state
VARIABLES
    peer,             \* per socket: the client's end: "none", "open", "closed", or
                      \* "reset" (closed with frames from the hub still unread)
    backlog,          \* connections waiting in the listen queue
    clients,          \* MessageHub.clients: session_id -> socket
    client_sessions,  \* MessageHub.client_sessions: socket -> session_id (insertion ordered)
    closed,           \* sockets the hub has called close() on
    sndbuf,           \* per socket: frames written and not yet read by the client
    lock,             \* MessageHub.lock is held
    running,          \* MessageHub.running
    server,           \* MessageHub.server: "listening" or "closed"
    pc,               \* hub thread: "select", "lines" (in the loop over lines),
                      \* "handled" (a handler just returned), "rest" (in the loop
                      \* over the sockets select() returned), "blocked" (waiting
                      \* for the lock), "crashed" (an exception left _event_loop)
                      \* or "exited" (the process has ended)
    cur,              \* socket whose recv() data is being processed
    left,             \* lines of that data not yet processed
    log               \* what the latest step read, wrote and raised

\* one HubClient (scripts/client.py) and its socket
VARIABLES
    sock,             \* HubClient.sock: "None", "unconnected" (connect() failed),
                      \* "connected" or "closed"
    connected,        \* HubClient.connected
    recv_thread,      \* HubClient.recv_thread: "None", "running" or "ended"
    stale_loops,      \* _recv_loop threads of earlier connect() calls still running
    stop_event,       \* HubClient._stop_event is set
    rcvbuf,           \* frames the hub wrote to the client's socket, not yet read
    message_queue,    \* HubClient.message_queue
    caller,           \* the application's thread: "idle", or where it is inside
                      \* connect(), disconnect(), send() or recv()
    results,          \* what the recv() calls returned, in order
    returned,         \* what the latest call of the application's thread returned
    forwarded,        \* application messages the hub has written to this client
    sends,            \* send() calls made
    connects,         \* connect() calls made
    disconnects,      \* disconnect() calls made
    register_pending, \* the REGISTER of the latest connect() is not answered yet
    unanswered,       \* frames written by send() the hub has not confirmed yet
    buffer,           \* the buffer of _recv_loop: what it has read after the last newline
    arrived,          \* what the recv() calls of _recv_loop returned, read by read
    clock,            \* the hub's clock: seconds since the hub started
    stamped,          \* per application message the hub processed: the message as
                      \* forwarded and the SENT written to its sender
    log_lines,        \* nclaude.py: number of lines in messages.log
    flock,            \* nclaude.py: the sender holding the lock file's lock, or 0
    pointer,          \* nclaude.py: the offset in the session's pointer file
    reader,           \* nclaude.py: where the session's read() is, with its locals
    got               \* nclaude.py: what the read() calls of the session returned

\* the files beside the hub, the process table and the status probe
VARIABLES
    socket_path,      \* the hub's socket path exists
    pid_file,         \* the PID file: whether it exists, and its text
    alive,            \* process ids of running processes
    status            \* what the latest get_hub_status() returned

threadvars == <<sock, connected, recv_thread, stale_loops, stop_event>>
queuevars == <<rcvbuf, message_queue>>
callvars == <<caller, results, returned, forwarded, sends, connects, disconnects,
              register_pending, unanswered>>
streamvars == <<buffer, arrived>>
clientvars == <<threadvars, queuevars, callvars, streamvars>>
filevars == <<socket_path, pid_file, alive, status>>
loopvars == <<running, server>>
stampvars == <<clock, stamped>>
logvars == <<log_lines, flock, pointer, reader, got>>
othervars == <<clientvars, filevars, stampvars, logvars>>

vars == <<peer, backlog, clients, client_sessions, closed, sndbuf, lock, pc, cur,
          left, log, loopvars, othervars>>

\* ------------------------------------------------------------ wire frames
\* frames a client may put on the wire (one decoded line each)
Reg(x) == [type |-> "REGISTER", sid |-> x, to |-> <<>>, online |-> {}]
Msg(to) == [type |-> "MSG", sid |-> None, to |-> to, online |-> {}]
\* an application message in which the client set "from" itself (sid carries it)
MsgFrom(x, to) == [type |-> "MSG", sid |-> x, to |-> to, online |-> {}]
BadJson == [type |-> "BADJSON", sid |-> None, to |-> <<>>, online |-> {}]
NonObj == [type |-> "NONOBJ", sid |-> None, to |-> <<>>, online |-> {}]
\* one piece of a frame that recv() returned in two pieces: the text of an object
\* cut anywhere inside it is not a JSON text on either side of the cut
Partial == [type |-> "PARTIAL", sid |-> None, to |-> <<>>, online |-> {}]

ToLists == UNION {[1..n -> Ids] : n \in 0..MaxTo}
ClientFrames == {Reg(x) : x \in Ids \cup {None}} \cup {Msg(t) : t \in ToLists}
                  \cup {MsgFrom(x, t) : x \in Ids, t \in ToLists}
                  \cup {BadJson, NonObj, Partial}

\* frames the hub writes
Registered(x, on) == [type |-> "REGISTERED", sid |-> x, to |-> <<>>, online |-> on]
Join(x) == [type |-> "JOIN", sid |-> x, to |-> <<>>, online |-> {}]
Leave(x) == [type |-> "LEAVE", sid |-> x, to |-> <<>>, online |-> {}]
Sent(to) == [type |-> "SENT", sid |-> None, to |-> to, online |-> {}]
Error == [type |-> "ERROR", sid |-> None, to |-> <<>>, online |-> {}]
Forward(from, to) == [type |-> "MSG", sid |-> from, to |-> to, online |-> {}]

\* ------------------------------------------------- ordered dict helpers
Keys(cs) == [i \in 1..Len(cs) |-> cs[i].sock]
KeySet(cs) == {cs[i].sock : i \in 1..Len(cs)}
CsGet(cs, c) ==
    IF \E i \in 1..Len(cs) : cs[i].sock = c
    THEN (CHOOSE e \in {cs[i] : i \in 1..Len(cs)} : e.sock = c).sid
    ELSE None
CsPop(cs, c) == SelectSeq(cs, LAMBDA e : e.sock # c)
CsSet(cs, c, v) ==
    IF c \in KeySet(cs)
    THEN [i \in 1..Len(cs) |-> IF cs[i].sock = c THEN [sock |-> c, sid |-> v] ELSE cs[i]]
    ELSE Append(cs, [sock |-> c, sid |-> v])
Online(cl) == {x \in Ids : cl[x] # NoSock}

\* ---------------------------------------------------------- hub routines
\* The hub's data while one handler runs: st.exc is "none", the name of an
\* exception that is propagating, or "DEADLOCK" when the thread waits for a
\* lock it already holds.
\* a read of clients or client_sessions at the named place of the code: noted
\* when the lock is not held
Touch(rec, held, site) == IF held THEN rec ELSE [rec EXCEPT !.unlocked = @ \cup {site}]

WriteResult(st, c) ==
    IF c \in st.closed THEN "EBADF"
    ELSE IF peer[c] \in {"closed", "reset"} THEN "EPIPE"
    ELSE IF st.buf[c] >= SndBuf THEN "EAGAIN"
    ELSE "ok"

RECURSIVE SendToClient(_, _, _)
RECURSIVE DisconnectClient(_, _)
RECURSIVE BroadcastLoop(_, _, _)

\* _broadcast with the exclude argument ignored
BroadcastToAll(st, frame, exclude) ==
    IF st.exc # "none" THEN st
    ELSE BroadcastLoop(st, Keys(st.cs), frame)

Broadcast(st, frame, exclude) ==
    IF st.exc # "none" THEN st
    ELSE BroadcastLoop(st, SelectSeq(Keys(st.cs), LAMBDA c : c \notin exclude), frame)

BroadcastLoop(st, targets, frame) ==
    IF st.exc # "none" \/ targets = <<>> THEN st
    ELSE BroadcastLoop(SendToClient(st, Head(targets), frame), Tail(targets), frame)

SendToClient(st, c, frame) ==
    IF st.exc # "none" THEN st
    ELSE LET res == WriteResult(st, c)
             st1 == [st EXCEPT !.writes = Append(@, [to |-> c, frame |-> frame,
                                                     res |-> res]),
                               !.buf[c] = IF res = "ok" THEN @ + 1 ELSE @]
         IN  IF res = "ok" THEN st1
             ELSE IF res = "EPIPE" THEN DisconnectClient(st1, c)
             ELSE [st1 EXCEPT !.exc = res]

DisconnectClient(st, c) ==
    IF st.exc # "none" THEN st
    ELSE IF st.lock THEN [st EXCEPT !.exc = "DEADLOCK"]
    ELSE LET session_id == CsGet(st.cs, c)
             st1 == [st EXCEPT !.cs = CsPop(@, c),
                               !.cl = IF session_id # None
                                      THEN [@ EXCEPT ![session_id] = NoSock] ELSE @,
                               !.closed = @ \cup {c}]
         IN  IF session_id # None THEN Broadcast(st1, Leave(session_id), {}) ELSE st1

SendError(st, c) == SendToClient(st, c, Error)

RouteTo(st, session_id, msg) ==
    IF st.exc # "none" THEN st
    ELSE IF st.cl[session_id] # NoSock THEN SendToClient(st, st.cl[session_id], msg)
    ELSE st

RECURSIVE RouteAll(_, _, _)
RouteAll(st, recipients, msg) ==
    IF st.exc # "none" \/ recipients = <<>> THEN st
    ELSE RouteAll(RouteTo(st, Head(recipients), msg), Tail(recipients), msg)

\* registration that overwrites the mapping and leaves the old connection alone
RegisterNoEvict(st, client, session_id) ==
    LET st1 == [st EXCEPT !.cl[session_id] = client,
                          !.cs = CsSet(@, client, session_id)]
        st2 == SendToClient(Touch(st1, st1.lock, "online"), client,
                            Registered(session_id, Online(st1.cl)))
    IN  Broadcast(st2, Join(session_id), {client})

\* registration that hands the registrant a message held for its identity
RegisterFlushHeld(st, client, session_id) ==
    LET old_sock == st.cl[session_id]
        held == [st EXCEPT !.lock = TRUE]
        evicted == IF old_sock # NoSock /\ old_sock # client
                   THEN DisconnectClient(held, old_sock) ELSE held
    IN  IF evicted.exc # "none" THEN evicted
        ELSE LET st1 == [evicted EXCEPT !.cl[session_id] = client,
                                        !.cs = CsSet(@, client, session_id),
                                        !.lock = FALSE]
                 st2 == SendToClient(Touch(st1, st1.lock, "online"), client,
                                     Registered(session_id, Online(st1.cl)))
                 st3 == SendToClient(st2, client, Forward(None, <<session_id>>))
             IN  Broadcast(st3, Join(session_id), {client})

Register(st, client, session_id) ==
    LET old_sock == st.cl[session_id]
        held == [st EXCEPT !.lock = TRUE]
        evicted == IF old_sock # NoSock /\ old_sock # client
                   THEN DisconnectClient(held, old_sock) ELSE held
    IN  IF evicted.exc # "none" THEN evicted
        ELSE LET st1 == [evicted EXCEPT !.cl[session_id] = client,
                                        !.cs = CsSet(@, client, session_id),
                                        !.lock = FALSE]
                 st2 == SendToClient(Touch(st1, st1.lock, "online"), client,
                                     Registered(session_id, Online(st1.cl)))
             IN  Broadcast(st2, Join(session_id), {client})

\* the reply to a message from an unregistered connection, followed by its close
NotRegisteredClose(st, client) == DisconnectClient(SendError(st, client), client)

NotRegistered(st, client) == SendError(st, client)

\* metadata that keeps a "from" the client supplied
StampKeepFrom(msg, sender) == IF msg.sid # None THEN msg ELSE [msg EXCEPT !.sid = sender]

\* msg["from"] = sender (timestamp and id are not part of the model's frames)
Stamp(msg, sender) == [msg EXCEPT !.sid = sender]

\* a hub that acknowledges and announces a REGISTER without a session_id
ProcessMessageAckEmpty(st, client, msg) ==
    IF msg.type = "NONOBJ" THEN [st EXCEPT !.exc = "AttributeError"]
    ELSE IF msg.type = "REGISTER"
    THEN IF msg.sid # None THEN Register(st, client, msg.sid)
         ELSE Broadcast(SendToClient(st, client, Registered(None, Online(st.cl))),
                        Join(None), {client})
    ELSE LET sender == CsGet(st.cs, client)
             looked == Touch(st, st.lock, "sender")
         IN  IF sender = None THEN NotRegistered(looked, client)
             ELSE LET fwd == Stamp(msg, sender)
                      routed == IF msg.to = <<>> THEN Broadcast(looked, fwd, {client})
                                ELSE RouteAll(looked, msg.to, fwd)
                  IN  SendToClient(routed, client, Sent(msg.to))

ProcessMessage(st, client, msg) ==
    IF msg.type = "NONOBJ" THEN [st EXCEPT !.exc = "AttributeError"]
    ELSE IF msg.type = "REGISTER"
    THEN IF msg.sid # None THEN Register(st, client, msg.sid) ELSE st
    ELSE LET sender == CsGet(st.cs, client)
             looked == Touch(st, st.lock, "sender")
         IN  IF sender = None THEN NotRegistered(looked, client)
             ELSE LET fwd == Stamp(msg, sender)
                      routed == IF msg.to = <<>> THEN Broadcast(looked, fwd, {client})
                                ELSE RouteAll(looked, msg.to, fwd)
                  IN  SendToClient(routed, client, Sent(msg.to))

Snap(st) == [cs |-> st.cs, cl |-> st.cl]

\* one pass of the "for line in ..." loop of _handle_client
HandleLine(st, client, line) ==
    IF line.type \in {"BADJSON", "PARTIAL"} THEN SendError(st, client)
    ELSE ProcessMessage(st, client, line)

Start == [cs |-> client_sessions, cl |-> clients, closed |-> closed, buf |-> sndbuf,
          lock |-> lock, writes |-> <<>>, exc |-> "none", unlocked |-> {}]

\* store what the handler left behind (the log also keeps how many lines of the
\* read were still to come); an exception that leaves the loop drops
\* the lines not yet processed, a thread waiting for its own lock never returns,
\* an exception raised inside the except clause of _handle_client is caught by
\* nobody; a socket the hub closed is dead at the client's end too
Commit(st, op, c, line, more) ==
    /\ client_sessions' = st.cs
    /\ clients' = st.cl
    /\ closed' = st.closed
    /\ sndbuf' = [d \in Conns |-> IF d \in st.closed THEN 0 ELSE st.buf[d]]
    /\ peer' = [d \in Conns |-> IF d \in st.closed THEN "closed" ELSE peer[d]]
    /\ lock' = st.lock
    /\ pc' = IF st.exc = "DEADLOCK" THEN "blocked"
             ELSE IF op = "reset" /\ st.exc # "none" THEN "crashed"
             ELSE "handled"
    /\ cur' = IF st.exc = "none" /\ more > 0 THEN c ELSE NoSock
    /\ left' = IF st.exc = "none" /\ more > 0 THEN more ELSE 0
    /\ log' = [op |-> op, sock |-> c, line |-> line, writes |-> st.writes,
               before |-> Snap(Start), exc |-> st.exc, more |-> more,
               unlocked |-> st.unlocked]
    /\ UNCHANGED <<loopvars, othervars>>

\* the log of a step that is not a handler's
Idle == [op |-> "none", sock |-> NoSock, line |-> BadJson, writes |-> <<>>,
         before |-> [cs |-> <<>>, cl |-> [x \in Ids |-> NoSock]], exc |-> "none",
         more |-> 0, unlocked |-> {}]

\* the loop runs while the running flag is set; its select() call raises
\* ValueError when a monitored socket is closed; the sockets select() returned
\* are handled one after the other ("rest": some are still to be handled)
Selectable ==
    /\ (pc = "select" /\ running) \/ pc = "rest"
    /\ KeySet(client_sessions) \cap closed = {}

\* ------------------------------------------------------ files and processes
\* process ids: init, the hub, and another process
InitPid == 1
HubPid == 2
Pids == {InitPid, HubPid, 3}

\* str(pid) and int(text.strip()); int() raises ValueError on "" and on "abc"
PidTexts == {"", "abc", "-1", "0", "1", "2", "3"}
StrOf(pid) == CASE pid = 1 -> "1" [] pid = 2 -> "2" [] pid = 3 -> "3"
IntOf(text) ==
    CASE text = "-1" -> [ok |-> TRUE, value |-> -1]
      [] text = "0" -> [ok |-> TRUE, value |-> 0]
      [] text = "1" -> [ok |-> TRUE, value |-> 1]
      [] text = "2" -> [ok |-> TRUE, value |-> 2]
      [] text = "3" -> [ok |-> TRUE, value |-> 3]
      [] OTHER -> [ok |-> FALSE, value |-> 0]

NoFile == [exists |-> FALSE, text |-> ""]
PidFile(pid) == [exists |-> TRUE, text |-> StrOf(pid)]
NoStatus == [out |-> "none", running |-> FALSE, reason |-> "not asked"]

\* ----------------------------------------------------------------- actions
\* a hub that has just entered its event loop
HubInit ==
    /\ peer = [c \in Conns |-> "none"]
    /\ backlog = <<>>
    /\ clients = [x \in Ids |-> NoSock]
    /\ client_sessions = <<>>
    /\ closed = {}
    /\ sndbuf = [c \in Conns |-> 0]
    /\ lock = FALSE
    /\ pc = "select"
    /\ cur = NoSock
    /\ left = 0
    /\ log = Idle
    /\ running = TRUE
    /\ server = "listening"
    /\ clock = 0
    /\ stamped = {}
    /\ log_lines = 0
    /\ flock = 0
    /\ pointer = -1
    /\ reader = [at |-> "idle", all |-> FALSE, last_line |-> 0, lines |-> 0]
    /\ got = <<>>

\* a HubClient just constructed
ClientInit ==
    /\ sock = "None"
    /\ connected = FALSE
    /\ recv_thread = "None"
    /\ stale_loops = 0
    /\ stop_event = FALSE
    /\ rcvbuf = <<>>
    /\ message_queue = <<>>
    /\ caller = "idle"
    /\ results = <<>>
    /\ returned = [call |-> "none", out |-> "none", frame |-> [type |-> "NONE", n |-> 0]]
    /\ forwarded = 0
    /\ sends = 0
    /\ connects = 0
    /\ disconnects = 0
    /\ register_pending = FALSE
    /\ unanswered = 0
    /\ buffer = <<>>
    /\ arrived = <<>>

\* start() has bound the socket path and written its process id to the PID file
Init ==
    /\ HubInit
    /\ ClientInit
    /\ socket_path = TRUE
    /\ pid_file = PidFile(HubPid)
    /\ alive = {InitPid, HubPid}
    /\ status = NoStatus

\* a client process connects to the hub's socket path
ClientConnect(c) ==
    /\ pc \notin {"handled", "exited"}
    /\ peer[c] = "none"
    /\ \A d \in Conns : d < c => peer[d] # "none"
    /\ peer' = [peer EXCEPT ![c] = "open"]
    /\ backlog' = Append(backlog, c)
    /\ UNCHANGED <<clients, client_sessions, closed, sndbuf, lock, pc, cur, left, log, loopvars, othervars>>

\* a client process closes its end (exit, disconnect(), crash)
ClientClose(c) ==
    /\ pc \notin {"handled", "exited"}
    /\ peer[c] = "open"
    /\ peer' = [peer EXCEPT ![c] = IF sndbuf[c] > 0 THEN "reset" ELSE "closed"]
    /\ sndbuf' = [sndbuf EXCEPT ![c] = 0]
    /\ UNCHANGED <<backlog, clients, client_sessions, closed, lock, pc, cur, left, log, loopvars, othervars>>

\* a client reads everything the hub has written to it
ClientDrain(c) ==
    /\ pc \notin {"handled", "exited"}
    /\ peer[c] = "open"
    /\ sndbuf[c] > 0
    /\ sndbuf' = [sndbuf EXCEPT ![c] = 0]
    /\ UNCHANGED <<peer, backlog, clients, client_sessions, closed, lock, pc, cur, left, log, loopvars, othervars>>

AcceptClient ==
    /\ Selectable
    /\ server = "listening"
    /\ backlog # <<>>
    /\ backlog' = Tail(backlog)
    /\ Commit([Start EXCEPT !.cs = CsSet(@, Head(backlog), None)],
              "accept", Head(backlog), BadJson, 0)

\* _handle_client: recv() returns data holding n lines; the first line is processed
HandleClient(c, n, line) ==
    /\ Selectable
    /\ c \in KeySet(client_sessions)
    /\ Commit(HandleLine(Start, c, line), "handle", c, line, n - 1)
    /\ UNCHANGED backlog

\* _handle_client: the next line of the data returned by the same recv()
HandleNextLine(line) ==
    /\ pc = "lines"
    /\ Commit(HandleLine(Start, cur, line), "handle", cur, line, left - 1)
    /\ UNCHANGED backlog

\* _handle_client when recv() returns b""
HandleEof(c) ==
    /\ Selectable
    /\ c \in KeySet(client_sessions)
    /\ peer[c] = "closed"
    /\ Commit(DisconnectClient(Start, c), "eof", c, BadJson, 0)
    /\ UNCHANGED backlog

\* _handle_client when recv() raises ConnectionResetError
HandleReset(c) ==
    /\ Selectable
    /\ c \in KeySet(client_sessions)
    /\ peer[c] = "reset"
    /\ Commit(DisconnectClient(Start, c), "reset", c, BadJson, 0)
    /\ UNCHANGED backlog

\* _event_loop: select() raises ValueError on a closed socket and the loop retries
SelectError ==
    /\ pc = "select"
    /\ running
    /\ KeySet(client_sessions) \cap closed # {}
    /\ pc' = "handled"
    /\ log' = [Idle EXCEPT !.op = "select", !.exc = "ValueError"]
    /\ UNCHANGED <<peer, backlog, clients, client_sessions, closed, sndbuf, lock, cur, left,
                   loopvars, othervars>>

\* the handler returns: on to the next line of the data, or back to the top of
\* the loop, where the list for select() is built from client_sessions; once the
\* running flag is cleared, on to the other sockets the last select() returned
Continue ==
    /\ pc = "handled"
    /\ pc' = IF left > 0 THEN "lines" ELSE IF running THEN "select" ELSE "rest"
    /\ log' = IF left = 0 /\ running THEN Touch(Idle, lock, "read_sockets") ELSE Idle
    /\ UNCHANGED <<peer, backlog, clients, client_sessions, closed, sndbuf, lock, cur, left,
                   loopvars, othervars>>

\* the loop over the sockets select() returned ends
RestDone ==
    /\ pc = "rest"
    /\ pc' = "select"
    /\ UNCHANGED <<peer, backlog, clients, client_sessions, closed, sndbuf, lock, cur, left,
                   log, loopvars, othervars>>

\* the process has ended: its sockets and its objects are gone
Exited ==
    /\ peer' = [c \in Conns |-> "none"]
    /\ backlog' = <<>>
    /\ clients' = [x \in Ids |-> NoSock]
    /\ client_sessions' = <<>>
    /\ closed' = {}
    /\ sndbuf' = [c \in Conns |-> 0]
    /\ lock' = FALSE
    /\ pc' = "exited"
    /\ cur' = NoSock
    /\ left' = 0
    /\ log' = Idle
    /\ running' = FALSE
    /\ server' = "closed"
    /\ UNCHANGED <<clientvars, status, stampvars, logvars>>

\* SIGTERM or SIGINT: the handler calls stop(), which clears the running flag, closes
\* the listening socket and removes the socket path and the PID file, then
\* sys.exit(0) raises SystemExit in the hub's thread, wherever it is
Stop ==
    /\ pc # "exited"
    /\ HubPid \in alive
    /\ socket_path' = FALSE
    /\ pid_file' = NoFile
    /\ alive' = alive \ {HubPid}
    /\ Exited

\* the signal is handled while _disconnect_client is inside its try block around
\* client.close(): stop() runs, and the bare except swallows the SystemExit, so
\* the hub's thread goes on with the running flag cleared
StopSwallowed ==
    /\ pc \in {"handled", "crashed"}
    /\ log.op \in {"eof", "reset"}
    /\ running
    /\ HubPid \in alive
    /\ running' = FALSE
    /\ server' = "closed"
    /\ socket_path' = FALSE
    /\ pid_file' = NoFile
    /\ UNCHANGED <<peer, backlog, clients, client_sessions, closed, sndbuf, lock, pc, cur,
                   left, log, clientvars, alive, status, stampvars, logvars>>

\* _event_loop finds the running flag cleared; start() and main() return
LoopExit ==
    /\ pc = "select"
    /\ ~running
    /\ alive' = alive \ {HubPid}
    /\ UNCHANGED <<socket_path, pid_file>>
    /\ Exited

\* an exception has left _event_loop: the process ends with the traceback, and
\* the socket path and the PID file stay behind
CrashExit ==
    /\ pc = "crashed"
    /\ HubPid \in alive
    /\ alive' = alive \ {HubPid}
    /\ UNCHANGED <<peer, backlog, clients, client_sessions, closed, sndbuf, lock, pc, cur,
                   left, log, loopvars, clientvars, socket_path, pid_file, status,
                   stampvars, logvars>>

Next ==
    \/ \E c \in Conns : ClientConnect(c)
    \/ \E c \in Conns : ClientClose(c)
    \/ \E c \in Conns : ClientDrain(c)
    \/ AcceptClient
    \/ \E c \in Conns, n \in 1..MaxFrames, line \in ClientFrames : HandleClient(c, n, line)
    \/ \E line \in ClientFrames : HandleNextLine(line)
    \/ \E c \in Conns : HandleEof(c)
    \/ \E c \in Conns : HandleReset(c)
    \/ SelectError
    \/ Continue
    \/ RestDone
    \/ Stop
    \/ StopSwallowed
    \/ LoopExit
    \/ CrashExit

Spec == Init /\ [][Next]_vars

TypeOK ==
    /\ peer \in [Conns -> {"none", "open", "closed", "reset"}]
    /\ clients \in [Ids -> Conns \cup {NoSock}]
    /\ closed \subseteq Conns
    /\ sndbuf \in [Conns -> 0..SndBuf]
    /\ lock \in BOOLEAN
    /\ pc \in {"select", "lines", "handled", "rest", "blocked", "crashed", "exited"}
    /\ running \in BOOLEAN
    /\ server \in {"listening", "closed"}
    /\ socket_path \in BOOLEAN
    /\ alive \subseteq {1, 2, 3}
    /\ cur \in Conns \cup {NoSock}
    /\ left \in 0..MaxFrames

\* ------------------------------------------------- reading the handler's log
\* the latest step processed one line read from log.sock
HandledLine == log.op = "handle"
\* identity the reading socket was registered under when the line was taken up
SenderId == CsGet(log.before.cs, log.sock)
\* positions in the handler's writes of frames of type t; the sockets written to
Attempts(t) == {i \in 1..Len(log.writes) : log.writes[i].frame.type = t}
Targets(t) == {log.writes[i].to : i \in Attempts(t)}
\* sockets bound to an identity in client_sessions
RegisteredConns(cs) == {c \in KeySet(cs) : CsGet(cs, c) # None}
\* identity x is registered to a connection that is bound back to x
LiveId(snap, x) == snap.cl[x] # NoSock /\ CsGet(snap.cs, snap.cl[x]) = x
\* the line is an application message from a registered connection
AppMessage == HandledLine /\ log.line.type = "MSG" /\ SenderId # None
\* the line is a REGISTER for x sent by another socket than the one x maps to
Reregister(x) ==
    /\ HandledLine
    /\ log.line = Reg(x)
    /\ log.before.cl[x] \notin {NoSock, log.sock}

\* ------------------------------------------------------------------ claims

C2_RegisterCompletes ==
    \A x \in Ids :
        (Reregister(x) /\ log.before.cl[x] \in KeySet(log.before.cs))
           => /\ pc # "blocked"
              /\ ~lock
              /\ clients[x] = log.sock
              /\ \E i \in Attempts("REGISTERED") : log.writes[i].to = log.sock

\* C3: the two registry views agree: X maps to c in clients iff c maps to X in
\* client_sessions.
C3_ViewsConsistent ==
    \A x \in Ids, c \in Conns :
        clients[x] = c <=> (c \in KeySet(client_sessions) /\ CsGet(client_sessions, c) = x)

\* C4: a broadcast (empty or absent "to") is never written to the socket it came from.
C4_NoEcho ==
    (AppMessage /\ log.line.to = <<>>) => log.sock \notin Targets("MSG")

\* a registered connection's broadcast was written to some other socket
C4_Witness ==
    AppMessage /\ log.line.to = <<>> /\ Targets("MSG") # {}

\* C5: a broadcast is written to exactly the connections registered at routing
\* time, except the sender.
C5_BroadcastRecipients ==
    (AppMessage /\ log.line.to = <<>>)
       => Targets("MSG") = RegisteredConns(log.before.cs) \ {log.sock}

\* C6: a directed message whose "to" names registered identities (each bound to a
\* connection whose client is connected) is written to exactly the connections
\* those identities map to.
C6_DirectedExact ==
    (/\ AppMessage
     /\ log.line.to # <<>>
     /\ \A i \in DOMAIN log.line.to :
           LiveId(log.before, log.line.to[i]) /\ peer[log.before.cl[log.line.to[i]]] = "open")
       => Targets("MSG") = {log.before.cl[log.line.to[i]] : i \in DOMAIN log.line.to}

\* C7: for every application message from a registered connection exactly one
\* SENT is written, to the sender, after all deliveries of the message.
C7_ExactlyOneSent ==
    AppMessage
       => /\ Cardinality(Attempts("SENT")) = 1
          /\ \A i \in Attempts("SENT") :
                /\ log.writes[i].to = log.sock
                /\ \A j \in Attempts("MSG") : j < i

\* C8: a directed message naming an unregistered identity is no error: SENT and no
\* ERROR is written to the sender, the message is written only to connections the
\* named identities map to, and every named identity that is registered (to a
\* connection whose client is connected) is written the message.
C8_RoutingMiss ==
    (/\ AppMessage
     /\ \E i \in DOMAIN log.line.to : log.before.cl[log.line.to[i]] = NoSock)
       => /\ \E i \in Attempts("SENT") : log.writes[i].to = log.sock
          /\ Attempts("ERROR") = {}
          /\ Targets("MSG") \subseteq
                {log.before.cl[log.line.to[i]] : i \in DOMAIN log.line.to} \ {NoSock}
          /\ \A i \in DOMAIN log.line.to :
                (LiveId(log.before, log.line.to[i])
                   /\ peer[log.before.cl[log.line.to[i]]] = "open")
                   => log.before.cl[log.line.to[i]] \in Targets("MSG")

\* C9: the disconnect of a registered connection writes exactly one LEAVE to each
\* connection that remains registered; the disconnect of a connection that never
\* registered writes no LEAVE.
C9_LeaveOnDisconnect ==
    log.op \in {"eof", "reset"}
       => IF SenderId # None
          THEN \A c \in RegisteredConns(client_sessions) :
                  Cardinality({i \in Attempts("LEAVE") :
                                  log.writes[i].to = c
                                  /\ log.writes[i].frame = Leave(SenderId)}) = 1
          ELSE Attempts("LEAVE") = {}

\* C10: on a successful REGISTER (REGISTERED was written to the registrant) JOIN
\* with the new session_id is written to every other connection, never to the
\* registrant, and only after REGISTERED.
C10_JoinOnRegister ==
    \A r \in Attempts("REGISTERED") :
        (HandledLine /\ log.writes[r].res = "ok")
           => /\ \A c \in KeySet(client_sessions) \ {log.sock} :
                    \E j \in Attempts("JOIN") :
                        log.writes[j].to = c /\ log.writes[j].frame = Join(log.line.sid)
              /\ log.sock \notin Targets("JOIN")
              /\ \A j \in Attempts("JOIN") : r < j

\* ---------------------------------------------------- claims on the replies
\* identities bound to a connection other than log.sock when the line was taken up
OthersBound == {CsGet(log.before.cs, c) : c \in KeySet(log.before.cs) \ {log.sock}} \ {None}

\* C11: the online roster of a REGISTERED reply is the set of identities registered
\* once the registration is installed: the registrant's identity and the identities
\* the other connections are bound to, and no identity without a connection.
C11_RosterAfterRegistration ==
    \A r \in Attempts("REGISTERED") :
        HandledLine => log.writes[r].frame.online = OthersBound \cup {log.line.sid}

\* C12: a non-REGISTER frame from a connection that has not registered is answered
\* with one ERROR to that connection and nothing else (no forwarded message, no
\* SENT), and the connection stays open, unregistered and monitored.
C12_UnregisteredError ==
    (HandledLine /\ log.line.type = "MSG" /\ SenderId = None)
       => /\ Len(log.writes) = 1
          /\ log.writes[1].to = log.sock
          /\ log.writes[1].frame = Error
          /\ log.writes[1].res = "ok"
                => /\ log.sock \in KeySet(client_sessions)
                   /\ CsGet(client_sessions, log.sock) = None
                   /\ log.sock \notin closed
                   /\ peer[log.sock] = "open"
                   /\ pc = "handled"

\* an unregistered connection's message was answered and the reply was written
C12_Witness ==
    /\ HandledLine /\ log.line.type = "MSG" /\ SenderId = None
    /\ log.writes # <<>> /\ log.writes[1].res = "ok"

\* C13: every forwarded application message carries "from" equal to the identity
\* the sending connection is registered under, whatever "from" the client put in
\* the frame; handling the frame with and without a client-supplied "from" writes
\* the same frames to the same sockets and leaves the same registry.
C13_FromIsSender ==
    /\ AppMessage => \A i \in Attempts("MSG") :
                        log.writes[i].frame = Forward(SenderId, log.line.to)
    /\ (pc = "select" /\ lock = FALSE)
          => \A c \in RegisteredConns(client_sessions), x \in Ids, t \in ToLists :
                HandleLine(Start, c, MsgFrom(x, t)) = HandleLine(Start, c, Msg(t))

\* a message claiming another identity in "from" was forwarded to some socket
C13_Witness ==
    /\ AppMessage
    /\ log.line.sid \notin {None, SenderId}
    /\ \E i \in Attempts("MSG") : log.writes[i].res = "ok"

\* a line that is no message object: text that is not JSON, or a JSON value that
\* is not an object
Malformed == HandledLine /\ log.line.type \in {"BADJSON", "NONOBJ"}

\* C14: a malformed line that has further lines of the same read after it is
\* answered with exactly one ERROR to its connection, and the lines after it are
\* still processed (as the lines before it were).
C14_MalformedBetween ==
    (Malformed /\ log.more > 0)
       => /\ Cardinality(Attempts("ERROR")) = 1
          /\ Targets("ERROR") = {log.sock}
          /\ cur = log.sock
          /\ left = log.more

\* C15: when a read holds several complete frames, the frames after the one just
\* processed are processed next, before any other socket is serviced: none is dropped.
C15_ConcatenatedFrames ==
    (HandledLine /\ log.line.type \in {"REGISTER", "MSG"} /\ log.more > 0)
       => /\ pc = "handled"
          /\ cur = log.sock
          /\ left = log.more

\* C16: a piece of a frame that arrived split across two reads is kept until the
\* rest arrives: it is answered with no ERROR.
C16_PartialReassembled ==
    (HandledLine /\ log.line = Partial) => Attempts("ERROR") = {}

\* ------------------------------------------------- claims on the deliveries
\* connections an application message is meant for: the registered connections
\* but the sender for a broadcast, the connections the named identities map to
Intended ==
    IF log.line.to = <<>> THEN RegisteredConns(log.before.cs) \ {log.sock}
    ELSE {log.before.cl[log.line.to[k]] : k \in DOMAIN log.line.to} \ {NoSock}

\* C17: when a write to a recipient fails while a message is routed, the other
\* recipients are still written the message, SENT is still written to the sender,
\* and the failing recipient is disconnected: closed, out of the registry, with a
\* LEAVE broadcast if it was registered.
C17_WriteFailureIsolated ==
    (AppMessage /\ \E i \in Attempts("MSG") : log.writes[i].res # "ok")
       => /\ Intended \ closed \subseteq Targets("MSG")
          /\ \E j \in Attempts("SENT") : log.writes[j].to = log.sock
          /\ \A i \in Attempts("MSG") :
                log.writes[i].res # "ok"
                   => /\ log.writes[i].to \in closed
                      /\ log.writes[i].to \notin KeySet(client_sessions)
                      /\ \A x \in Ids : clients[x] # log.writes[i].to
                      /\ CsGet(log.before.cs, log.writes[i].to) # None
                            => \E j \in Attempts("LEAVE") :
                                  log.writes[j].frame =
                                     Leave(CsGet(log.before.cs, log.writes[i].to))

\* C18: an application message is written to each connection at most once,
\* whatever its "to" holds.
C18_AtMostOnce ==
    AppMessage
       => \A c \in Conns :
             Cardinality({i \in Attempts("MSG") :
                             log.writes[i].to = c /\ log.writes[i].res = "ok"}) <= 1

\* C20: nothing is kept for later delivery: a forwarded message is written only
\* while the line that carries it is handled, and a directed message only to
\* connections its identities mapped to when the line was taken up, so an identity
\* nobody is registered under gets no write, then or after a later registration.
C20_NeverQueued ==
    /\ Attempts("MSG") # {} => AppMessage
    /\ AppMessage
          => \A i \in Attempts("MSG") :
                /\ log.writes[i].frame.to = log.line.to
                /\ log.line.to # <<>> => log.writes[i].to \in Intended

\* a directed message naming an identity nobody is registered under was handled
\* to its end while a client that may register under it later is connecting
C20_Witness ==
    /\ AppMessage
    /\ log.exc = "none"
    /\ \E k \in DOMAIN log.line.to : log.before.cl[log.line.to[k]] = NoSock
    /\ \E c \in Conns : peer[c] = "open" /\ c \notin KeySet(client_sessions)

\* ------------------------------------------------------- the client's side
\* frames the hub writes to the client: REGISTERED, the k-th application message
\* it forwards to it, and the SENT for the frame the client's j-th send() wrote
RegisteredReply == [type |-> "REGISTERED", n |-> 0]
Inbound(k) == [type |-> "MSG", n |-> k]
Confirm(j) == [type |-> "SENT", n |-> j]
NoFrame == [type |-> "NONE", n |-> 0]

corevars == <<peer, backlog, clients, client_sessions, closed, sndbuf, lock, pc, cur,
              left, log, loopvars>>
hubvars == <<corevars, stampvars, logvars>>

\* what a call returned: connect() "connected" or "error"; send() confirmed with
\* the id of a SENT, with id "unknown" or "unconfirmed", or "error"; recv() a frame
\* or None; disconnect() "done"
Returned(call, out, frame) == [call |-> call, out |-> out, frame |-> frame]
RecvCalls == Len(results)

\* the hub is stopped: stop() removes the socket path and the PID file
PathRemoved ==
    /\ caller = "idle"
    /\ socket_path
    /\ socket_path' = FALSE
    /\ pid_file' = NoFile
    /\ UNCHANGED <<clientvars, alive, status, hubvars>>

\* connect() without the test of the path: the socket is created, connect()
\* raises FileNotFoundError and the except clause returns the error
ConnectNoPathTries ==
    /\ caller = "idle"
    /\ connects < MaxConnects
    /\ ~socket_path
    /\ connects' = connects + 1
    /\ sock' = "unconnected"
    /\ returned' = Returned("connect", "error", NoFrame)
    /\ UNCHANGED <<connected, recv_thread, stale_loops, stop_event, queuevars, caller,
                   results, forwarded, sends, disconnects, register_pending, unanswered,
                   streamvars, filevars, hubvars>>

\* connect() when the socket path does not exist
ConnectNoPath ==
    /\ caller = "idle"
    /\ connects < MaxConnects
    /\ ~socket_path
    /\ connects' = connects + 1
    /\ returned' = Returned("connect", "error", NoFrame)
    /\ UNCHANGED <<threadvars, queuevars, caller, results, forwarded, sends,
                   disconnects, register_pending, unanswered, streamvars, filevars,
                   hubvars>>

\* connect(): the path exists but nothing accepts on it; socket.connect() raises
\* and the except clause returns the error
ConnectRefused ==
    /\ caller = "idle"
    /\ connects < MaxConnects
    /\ socket_path
    /\ connects' = connects + 1
    /\ sock' = "unconnected"
    /\ rcvbuf' = <<>>
    /\ unanswered' = 0
    /\ register_pending' = FALSE
    /\ returned' = Returned("connect", "error", NoFrame)
    /\ UNCHANGED <<connected, recv_thread, stale_loops, stop_event, message_queue,
                   caller, results, forwarded, sends, disconnects, streamvars,
                   filevars, hubvars>>

\* connect(): a new socket is connected, REGISTER is written and the thread waits
\* in _recv_one(timeout=5.0)
ConnectRegister ==
    /\ caller = "idle"
    /\ connects < MaxConnects
    /\ socket_path
    /\ connects' = connects + 1
    /\ sock' = "connected"
    /\ rcvbuf' = <<>>
    /\ unanswered' = 0
    /\ register_pending' = TRUE
    /\ caller' = "connect_recv"
    /\ UNCHANGED <<connected, recv_thread, stale_loops, stop_event, message_queue,
                   results, returned, forwarded, sends, disconnects, streamvars,
                   filevars, hubvars>>

\* connect() taking any first reply for the registration's confirmation
ConnectRecvOneAnyReply(n) ==
    /\ caller = "connect_recv"
    /\ n \in 1..Len(rcvbuf)
    /\ rcvbuf' = SubSeq(rcvbuf, n + 1, Len(rcvbuf))
    /\ caller' = "idle"
    /\ connected' = TRUE
    /\ stop_event' = FALSE
    /\ recv_thread' = "running"
    /\ stale_loops' = stale_loops + IF recv_thread = "running" THEN 1 ELSE 0
    /\ returned' = Returned("connect", "connected", Head(rcvbuf))
    /\ UNCHANGED <<sock, message_queue, results, forwarded, sends, connects,
                   disconnects, register_pending, unanswered, streamvars, filevars,
                   hubvars>>

\* connect(): _recv_one() reads the n frames waiting on the socket and returns the
\* first; REGISTERED sets connected and starts a _recv_loop thread
ConnectRecvOne(n) ==
    /\ caller = "connect_recv"
    /\ n \in 1..Len(rcvbuf)
    /\ rcvbuf' = SubSeq(rcvbuf, n + 1, Len(rcvbuf))
    /\ caller' = "idle"
    /\ LET response == Head(rcvbuf)
       IN  IF response.type = "REGISTERED"
           THEN /\ connected' = TRUE
                /\ stop_event' = FALSE
                /\ recv_thread' = "running"
                /\ stale_loops' = stale_loops + IF recv_thread = "running" THEN 1 ELSE 0
                /\ returned' = Returned("connect", "connected", response)
           ELSE /\ returned' = Returned("connect", "error", response)
                /\ UNCHANGED <<connected, stop_event, recv_thread, stale_loops>>
    /\ UNCHANGED <<sock, message_queue, results, forwarded, sends, connects,
                   disconnects, register_pending, unanswered, streamvars, filevars,
                   hubvars>>

\* connect(): _recv_one() returns None when nothing arrives within the timeout
ConnectTimeout ==
    /\ caller = "connect_recv"
    /\ rcvbuf = <<>>
    /\ caller' = "idle"
    /\ returned' = Returned("connect", "error", NoFrame)
    /\ UNCHANGED <<threadvars, queuevars, results, forwarded, sends, connects,
                   disconnects, register_pending, unanswered, streamvars, filevars,
                   hubvars>>

\* the hub answers the REGISTER
HubRegistered ==
    /\ sock = "connected"
    /\ register_pending
    /\ register_pending' = FALSE
    /\ rcvbuf' = Append(rcvbuf, RegisteredReply)
    /\ UNCHANGED <<threadvars, message_queue, caller, results, returned, forwarded,
                   sends, connects, disconnects, unanswered, streamvars, filevars,
                   hubvars>>

\* the hub forwards another client's message to this client (a broadcast reaches
\* every accepted socket, registered or not)
HubForward ==
    /\ sock = "connected"
    /\ forwarded < MaxMsgs
    /\ forwarded' = forwarded + 1
    /\ rcvbuf' = Append(rcvbuf, Inbound(forwarded + 1))
    /\ UNCHANGED <<threadvars, message_queue, caller, results, returned, sends,
                   connects, disconnects, register_pending, unanswered, streamvars,
                   filevars,
                   hubvars>>

\* the hub has processed a frame of this client and writes SENT
HubConfirm ==
    /\ sock = "connected"
    /\ ~register_pending
    /\ unanswered > 0
    /\ unanswered' = unanswered - 1
    /\ rcvbuf' = Append(rcvbuf, Confirm(sends - unanswered + 1))
    /\ UNCHANGED <<threadvars, message_queue, caller, results, returned, forwarded,
                   sends, connects, disconnects, register_pending, streamvars,
                   filevars, hubvars>>

\* _recv_loop: recv() returns the first n frames waiting on the socket and each
\* is put on the queue
RecvLoop(n) ==
    /\ recv_thread = "running" \/ stale_loops > 0
    /\ sock = "connected"
    /\ n \in 1..Len(rcvbuf)
    /\ message_queue' = message_queue \o SubSeq(rcvbuf, 1, n)
    /\ rcvbuf' = SubSeq(rcvbuf, n + 1, Len(rcvbuf))
    /\ UNCHANGED <<threadvars, callvars, streamvars, filevars, hubvars>>

\* _recv_loop: the loop condition finds the stop event set and the thread ends
RecvLoopExit ==
    /\ stop_event
    /\ \/ /\ recv_thread = "running"
          /\ recv_thread' = "ended"
          /\ UNCHANGED stale_loops
       \/ /\ stale_loops > 0
          /\ stale_loops' = stale_loops - 1
          /\ UNCHANGED recv_thread
    /\ UNCHANGED <<sock, connected, stop_event, queuevars, callvars, streamvars,
                   filevars, hubvars>>

\* send() when not connected
SendNotConnected ==
    /\ caller = "idle"
    /\ sends < MaxSends
    /\ ~connected
    /\ sends' = sends + 1
    /\ returned' = Returned("send", "error", NoFrame)
    /\ UNCHANGED <<threadvars, queuevars, caller, results, forwarded, connects,
                   disconnects, register_pending, unanswered, streamvars, filevars,
                   hubvars>>

\* send() after a connect() that was refused left an unconnected socket in
\* self.sock and connected as it was: sendall() raises OSError out of send()
SendRaises ==
    /\ caller = "idle"
    /\ sends < MaxSends
    /\ connected
    /\ sock = "unconnected"
    /\ sends' = sends + 1
    /\ returned' = Returned("send", "raised", NoFrame)
    /\ UNCHANGED <<threadvars, queuevars, caller, results, forwarded, connects,
                   disconnects, register_pending, unanswered, streamvars, filevars,
                   hubvars>>

\* send(): the frame is written, then the thread waits in message_queue.get(timeout=5.0)
SendWrite ==
    /\ caller = "idle"
    /\ sends < MaxSends
    /\ connected
    /\ sock = "connected"
    /\ sends' = sends + 1
    /\ unanswered' = unanswered + 1
    /\ caller' = "send_get"
    /\ UNCHANGED <<threadvars, queuevars, results, returned, forwarded, connects,
                   disconnects, register_pending, streamvars, filevars, hubvars>>

\* send(): get() returns an item; a SENT confirms the call, anything else is put
\* back with message_queue.put(), that is at the tail
SendGet ==
    /\ caller = "send_get"
    /\ message_queue # <<>>
    /\ LET response == Head(message_queue)
       IN  IF response.type = "SENT"
           THEN /\ message_queue' = Tail(message_queue)
                /\ returned' = Returned("send", "confirmed", response)
           ELSE /\ message_queue' = Append(Tail(message_queue), response)
                /\ returned' = Returned("send", "unknown", NoFrame)
    /\ caller' = "idle"
    /\ UNCHANGED <<threadvars, rcvbuf, results, forwarded, sends, connects, disconnects,
                   register_pending, unanswered, streamvars, filevars, hubvars>>

\* a send() that waits in get() without a timeout
SendTimeoutNever ==
    /\ caller = "send_get"
    /\ message_queue = <<>>
    /\ FALSE
    /\ returned' = Returned("send", "unconfirmed", NoFrame)
    /\ caller' = "idle"
    /\ UNCHANGED <<threadvars, queuevars, results, forwarded, sends, connects,
                   disconnects, register_pending, unanswered, streamvars, filevars,
                   hubvars>>

\* send(): get() raises queue.Empty when the timeout ends with the queue empty
SendTimeout ==
    /\ caller = "send_get"
    /\ message_queue = <<>>
    /\ returned' = Returned("send", "unconfirmed", NoFrame)
    /\ caller' = "idle"
    /\ UNCHANGED <<threadvars, queuevars, results, forwarded, sends, connects,
                   disconnects, register_pending, unanswered, streamvars, filevars,
                   hubvars>>

\* recv(timeout): timeout > 0 waits in get(timeout=timeout), timeout = 0 in
\* get(timeout=None)
RecvCall(positive) ==
    /\ caller = "idle"
    /\ RecvCalls < MaxRecvs
    /\ caller' = IF positive THEN "recv_get" ELSE "recv_get_forever"
    /\ UNCHANGED <<threadvars, queuevars, results, returned, forwarded, sends, connects,
                   disconnects, register_pending, unanswered, streamvars, filevars,
                   hubvars>>

\* recv(): get() returns the head of the queue
RecvGet ==
    /\ caller \in {"recv_get", "recv_get_forever"}
    /\ message_queue # <<>>
    /\ message_queue' = Tail(message_queue)
    /\ results' = Append(results, Returned("recv", "frame", Head(message_queue)))
    /\ returned' = Returned("recv", "frame", Head(message_queue))
    /\ caller' = "idle"
    /\ UNCHANGED <<threadvars, rcvbuf, forwarded, sends, connects, disconnects,
                   register_pending, unanswered, streamvars, filevars, hubvars>>

\* recv(timeout > 0): get() raises queue.Empty and recv() returns None
RecvTimeout ==
    /\ caller = "recv_get"
    /\ message_queue = <<>>
    /\ results' = Append(results, Returned("recv", "none", NoFrame))
    /\ returned' = Returned("recv", "none", NoFrame)
    /\ caller' = "idle"
    /\ UNCHANGED <<threadvars, queuevars, forwarded, sends, connects, disconnects,
                   register_pending, unanswered, streamvars, filevars, hubvars>>

\* disconnect(): the stop event is set, then the thread joins the receive thread
DisconnectCall ==
    /\ caller = "idle"
    /\ disconnects < MaxConnects
    /\ disconnects' = disconnects + 1
    /\ stop_event' = TRUE
    /\ caller' = "disconnect_join"
    /\ UNCHANGED <<sock, connected, recv_thread, stale_loops, queuevars, results,
                   returned, forwarded, sends, connects, register_pending, unanswered,
                   streamvars, filevars, hubvars>>

\* disconnect(): join(timeout=2.0) returns when the receive thread has ended,
\* when there is none, and when the two seconds are over
DisconnectJoinForever ==
    /\ caller = "disconnect_join"
    /\ recv_thread # "running"
    /\ caller' = "disconnect_close"
    /\ UNCHANGED <<threadvars, queuevars, results, returned, forwarded, sends, connects,
                   disconnects, register_pending, unanswered, streamvars, filevars,
                   hubvars>>

DisconnectJoin ==
    /\ caller = "disconnect_join"
    /\ caller' = "disconnect_close"
    /\ UNCHANGED <<threadvars, queuevars, results, returned, forwarded, sends, connects,
                   disconnects, register_pending, unanswered, streamvars, filevars,
                   hubvars>>

\* disconnect(): the socket, if there is one, is closed, an exception of close()
\* is swallowed, and connected is cleared
DisconnectClose(raises) ==
    /\ caller = "disconnect_close"
    /\ sock' = IF sock = "None" THEN "None" ELSE "closed"
    /\ connected' = FALSE
    /\ returned' = Returned("disconnect", "done", NoFrame)
    /\ caller' = "idle"
    /\ UNCHANGED <<recv_thread, stale_loops, stop_event, queuevars, results, forwarded,
                   sends, connects, disconnects, register_pending, unanswered,
                   streamvars, filevars,
                   hubvars>>

NextClient ==
    \/ PathRemoved
    \/ ConnectNoPath
    \/ ConnectRefused
    \/ ConnectRegister
    \/ \E n \in 1..(MaxMsgs + MaxSends + 1) : ConnectRecvOne(n)
    \/ ConnectTimeout
    \/ HubRegistered
    \/ HubForward
    \/ HubConfirm
    \/ \E n \in 1..(MaxMsgs + MaxSends + 1) : RecvLoop(n)
    \/ RecvLoopExit
    \/ SendNotConnected
    \/ SendRaises
    \/ SendWrite
    \/ SendGet
    \/ SendTimeout
    \/ \E positive \in BOOLEAN : RecvCall(positive)
    \/ RecvGet
    \/ RecvTimeout
    \/ DisconnectCall
    \/ DisconnectJoin
    \/ \E raises \in BOOLEAN : DisconnectClose(raises)

SpecClient == Init /\ [][NextClient]_vars

\* C19: per connection the application gets the forwarded messages in the order
\* the hub wrote them: of two messages recv() returned, the one returned first is
\* the one written first.
C19_InOrder ==
    \A i, j \in DOMAIN results :
        (/\ i < j
         /\ results[i].call = "recv" /\ results[i].frame.type = "MSG"
         /\ results[j].call = "recv" /\ results[j].frame.type = "MSG")
           => results[i].frame.n < results[j].frame.n

\* C21: when send() takes an item that is no SENT off the queue, it pushes it back
\* onto the front, so the queue is what it was before send() took anything, and
\* the call returns without a confirmation.
C21_PushBackFront ==
    [][(/\ caller = "send_get" /\ caller' = "idle"
        /\ message_queue # <<>>
        /\ Head(message_queue).type # "SENT")
          => /\ message_queue' = message_queue
             /\ returned'.call = "send"
             /\ returned'.out # "confirmed"]_vars

\* C22: recv() with timeout zero never waits: it is never inside get() with the
\* queue empty (it has returned None instead).
C22_RecvZeroNonBlocking ==
    ~(caller = "recv_get_forever" /\ message_queue = <<>>)

\* C23: connect() called while the socket path does not exist returns an error at
\* once: the same step ends the call, and it creates no socket, writes no REGISTER,
\* starts no receive thread and leaves connected as it was (false on a client
\* that never connected).
C23_ConnectFailsFast ==
    [][(caller = "idle" /\ ~socket_path /\ connects' = connects + 1)
          => /\ caller' = "idle"
             /\ returned'.call = "connect" /\ returned'.out = "error"
             /\ sock' = sock
             /\ register_pending' = register_pending /\ unanswered' = unanswered
             /\ recv_thread' = recv_thread /\ stale_loops' = stale_loops
             /\ connected' = connected
             /\ (sock = "None" => ~connected')]_vars

\* the first connect() of a client found no socket path and has returned
C23_Witness ==
    /\ ~socket_path
    /\ connects = 1
    /\ returned.call = "connect" /\ returned.out = "error"
    /\ sock = "None" /\ ~connected /\ recv_thread = "None"

\* C24: when connect() leaves _recv_one() with no reply or with a first reply that
\* is no REGISTERED, it returns an error, the socket stays as it is, connected is
\* not set and no receive thread is started; and a receive thread is started only
\* by the step of connect() that reads REGISTERED.
C24_NoLoopWithoutRegistered ==
    [][/\ (/\ caller = "connect_recv" /\ caller' = "idle"
            /\ (rcvbuf = <<>> \/ Head(rcvbuf).type # "REGISTERED"))
              => /\ returned'.call = "connect" /\ returned'.out = "error"
                 /\ connected' = connected
                 /\ recv_thread' = recv_thread /\ stale_loops' = stale_loops
                 /\ sock' = sock
                 /\ (connects = 1 => ~connected' /\ recv_thread' = "None")
       /\ ((recv_thread' = "running" /\ recv_thread # "running")
             \/ stale_loops' > stale_loops \/ (connected' /\ ~connected))
              => /\ caller = "connect_recv"
                 /\ rcvbuf # <<>>
                 /\ Head(rcvbuf).type = "REGISTERED"
                 /\ returned' = Returned("connect", "connected", Head(rcvbuf))]_vars

\* the first connect() of a client read a forwarded message as its first reply and
\* has failed, with the socket left connected
C24_Witness ==
    /\ connects = 1
    /\ caller = "idle"
    /\ returned.call = "connect" /\ returned.out = "error"
    /\ returned.frame.type = "MSG"
    /\ sock = "connected" /\ ~connected /\ recv_thread = "None"

\* C25: disconnect() always comes to its end and ends with the stop flag set, the
\* socket closed and connected false: inside disconnect() the next step of the
\* call can always be taken, whatever the receive thread does, and once it has
\* returned the socket is not open and connected is false.
C25_DisconnectTerminates ==
    /\ caller = "disconnect_join" => stop_event /\ ENABLED DisconnectJoin
    /\ caller = "disconnect_close"
         => stop_event /\ ENABLED (\E raises \in BOOLEAN : DisconnectClose(raises))
    /\ (caller = "idle" /\ returned.call = "disconnect")
         => sock \in {"None", "closed"} /\ ~connected /\ stop_event

\* disconnect() has returned while the receive thread is still running
C25_Witness ==
    /\ caller = "idle"
    /\ returned.call = "disconnect"
    /\ recv_thread = "running"
    /\ sock = "closed" /\ ~connected

\* C26: once stop() has run the running flag is false, the listening socket is
\* closed and the socket path and the PID file are gone, and from then on the
\* hub services nothing: it accepts no connection and handles no frame and no
\* disconnect, and at its wake-up the event loop can exit.
C26_StopExits ==
    [][/\ ~running' => server' = "closed" /\ ~socket_path' /\ pid_file' = NoFile
       /\ ~running => ~(log' # log /\ log'.op \in {"accept", "handle", "eof", "reset"})
       /\ (~running /\ pc = "select") => ENABLED LoopExit]_vars

\* ---------------------------------------------------------- the status probe
\* os.kill(pid, 0) as the probing process sees it: pid 0 is the caller's own
\* process group and pid -1 every process it may signal, both always there; a
\* process of another user (init, unless the caller is root) is refused
Kill(pid, root) ==
    CASE pid <= 0 -> "ok"
      [] pid > 0 /\ pid \notin alive -> "ProcessLookupError"
      [] pid > 0 /\ pid \in alive /\ pid = InitPid /\ ~root -> "PermissionError"
      [] OTHER -> "ok"

Status(out, isRunning, reason) == [out |-> out, running |-> isRunning, reason |-> reason]

get_hub_status(root) ==
    IF ~socket_path THEN Status("returned", FALSE, "Socket not found")
    ELSE IF ~pid_file.exists THEN Status("returned", FALSE, "PID file not found")
    ELSE LET pid == IntOf(pid_file.text)
             killed == Kill(pid.value, root)
         IN  IF ~pid.ok THEN Status("returned", FALSE, "Process not running")
             ELSE IF killed = "ok" THEN Status("returned", TRUE, pid_file.text)
             ELSE IF killed = "ProcessLookupError"
                  THEN Status("returned", FALSE, "Process not running")
             ELSE Status("raised", FALSE, killed)

\* the status command is run
Probe(root) ==
    /\ status' = get_hub_status(root)
    /\ UNCHANGED <<socket_path, pid_file, alive, clientvars, hubvars>>

\* the socket path is bound (start()) or unlinked
SocketPathSet(exists) ==
    /\ socket_path # exists
    /\ socket_path' = exists
    /\ UNCHANGED <<pid_file, alive, status, clientvars, hubvars>>

\* the PID file is written, with whatever text, or unlinked
PidFileSet(file) ==
    /\ pid_file # file
    /\ pid_file' = file
    /\ UNCHANGED <<socket_path, alive, status, clientvars, hubvars>>

\* a process starts or ends; init stays
ProcessSet(pid) ==
    /\ pid # InitPid
    /\ alive' = IF pid \in alive THEN alive \ {pid} ELSE alive \cup {pid}
    /\ UNCHANGED <<socket_path, pid_file, status, clientvars, hubvars>>

NextStatus ==
    \/ \E root \in BOOLEAN : Probe(root)
    \/ \E exists \in BOOLEAN : SocketPathSet(exists)
    \/ \E file \in {NoFile} \cup {[exists |-> TRUE, text |-> t] : t \in PidTexts} :
           PidFileSet(file)
    \/ \E pid \in Pids : ProcessSet(pid)

\* the probe beside a hub's files; the hub's and the client's variables play no part
SpecStatus == Init /\ [][NextStatus]_vars

\* the PID file names a process that is alive
NamedProcessAlive ==
    /\ pid_file.exists
    /\ IntOf(pid_file.text).ok
    /\ IntOf(pid_file.text).value \in alive

C28_LoopKeepsServing ==
    running => /\ pc \notin {"crashed", "blocked"}
               /\ ~(pc = "select" /\ KeySet(client_sessions) \cap closed # {})

\* C29: every read and write of clients and client_sessions is made with the
\* lock held: no step of the hub reads one of them without it, neither for the
\* roster of REGISTERED, nor for the sender of a message, nor for the list of
\* sockets given to select().
C29_RegistryUnderLock ==
    log.unlocked = {}

\* the latest step was _disconnect_client called for a connection by the event loop
Disconnected == log.op \in {"eof", "reset"}

\* C30: unregistering is idempotent. After _disconnect_client has run for a
\* connection, neither clients nor client_sessions refers to it, and running it
\* again for the same connection changes neither map and writes no LEAVE;
\* for a connection that never registered it changes no binding of an identity
\* and writes no LEAVE.
C30_DisconnectIdempotent ==
    Disconnected
      => /\ log.sock \notin KeySet(client_sessions)
         /\ \A x \in Ids : clients[x] # log.sock
         /\ LET again == DisconnectClient(Start, log.sock)
            IN  /\ again.cs = client_sessions
                /\ again.cl = clients
                /\ again.writes = <<>>
         /\ (/\ CsGet(log.before.cs, log.sock) = None
             /\ \A x \in Ids : log.before.cl[x] # log.sock)
              => /\ clients = log.before.cl
                 /\ CsPop(log.before.cs, log.sock) = client_sessions
                 /\ Attempts("LEAVE") = {}

\* C31: every connection stored as the value of an identity in clients is open:
\* the hub has accepted it and has not called close() on it.
C31_RegisteredOpen ==
    \A x \in Ids : clients[x] # NoSock => clients[x] \notin closed

\* threads that read HubClient.sock: the running _recv_loop threads, and the
\* application's thread while connect() waits in _recv_one()
Readers ==
    (IF recv_thread = "running" THEN 1 ELSE 0) + stale_loops
      + (IF caller = "connect_recv" THEN 1 ELSE 0)

\* C32: at no time do two threads read the client's socket, also when connect()
\* is called again while a receive thread is still running.
C32_OneReader ==
    sock = "connected" => Readers <= 1

\* ------------------------------------------- the receive loop, character by character
\* Under SpecStream rcvbuf holds what the hub wrote character by character, so that
\* a recv() may end anywhere. A frame's text is cut into two halves that json.loads
\* accepts only together and in order; NL is the newline that ends a line; Junk is
\* text json.loads refuses.
NL == [f |-> 0, half |-> 0]
Junk == [f |-> 0, half |-> 1]
FrameText(k) == <<[f |-> k, half |-> 1], [f |-> k, half |-> 2]>>
LineKinds == {"frame", "malformed", "empty"}

\* the line the peer writes: json.dumps(msg) + "\n", text that is no JSON, or a
\* bare newline
LineOf(kind, k) ==
    CASE kind = "frame" -> FrameText(k) \o <<NL>>
      [] kind = "malformed" -> <<Junk, NL>>
      [] OTHER -> <<NL>>

\* json.loads(line) returns a message instead of raising JSONDecodeError
Parses(line) ==
    /\ Len(line) = 2
    /\ line[1].f > 0
    /\ line = FrameText(line[1].f)

Loads(line) == Inbound(line[1].f)

\* the inner loop of _recv_loop: while "\n" in buffer: line, buffer =
\* buffer.split("\n", 1); a line that is not empty is put on the queue when it
\* parses and passed over when it does not
RECURSIVE Drain(_, _)
Drain(buf, q) ==
    IF \E i \in DOMAIN buf : buf[i] = NL
    THEN LET i == CHOOSE i \in DOMAIN buf :
                      /\ buf[i] = NL
                      /\ \A j \in 1..(i - 1) : buf[j] # NL
             line == SubSeq(buf, 1, i - 1)
             rest == SubSeq(buf, i + 1, Len(buf))
         IN  Drain(rest, IF line # <<>> /\ Parses(line) THEN Append(q, Loads(line))
                         ELSE q)
    ELSE [buffer |-> buf, queue |-> q]

\* connect() has returned: the client is registered and its receive thread runs
InitStream ==
    /\ HubInit
    /\ socket_path = TRUE
    /\ pid_file = PidFile(HubPid)
    /\ alive = {InitPid, HubPid}
    /\ status = NoStatus
    /\ sock = "connected"
    /\ connected = TRUE
    /\ recv_thread = "running"
    /\ stale_loops = 0
    /\ stop_event = FALSE
    /\ rcvbuf = <<>>
    /\ message_queue = <<>>
    /\ caller = "idle"
    /\ results = <<>>
    /\ returned = Returned("connect", "connected", RegisteredReply)
    /\ forwarded = 0
    /\ sends = 0
    /\ connects = 1
    /\ disconnects = 0
    /\ register_pending = FALSE
    /\ unanswered = 0
    /\ buffer = <<>>
    /\ arrived = <<>>

\* the peer writes one more line to the client's connection
PeerWriteLine(kind) ==
    /\ sock = "connected"
    /\ forwarded < MaxLines
    /\ forwarded' = forwarded + 1
    /\ rcvbuf' = rcvbuf \o LineOf(kind, forwarded + 1)
    /\ UNCHANGED <<threadvars, message_queue, caller, results, returned, sends,
                   connects, disconnects, register_pending, unanswered, streamvars,
                   filevars, hubvars>>

\* a receive loop that starts each read with an empty buffer
RecvLoopBytesNoCarry(n) ==
    /\ recv_thread = "running"
    /\ ~stop_event
    /\ sock = "connected"
    /\ n \in 1..Len(rcvbuf)
    /\ LET data == SubSeq(rcvbuf, 1, n)
           r == Drain(data, message_queue)
       IN  /\ arrived' = Append(arrived, data)
           /\ buffer' = r.buffer
           /\ message_queue' = r.queue
    /\ rcvbuf' = SubSeq(rcvbuf, n + 1, Len(rcvbuf))
    /\ UNCHANGED <<threadvars, callvars, filevars, hubvars>>

\* _recv_loop: recv() returns the first n characters waiting on the socket, the
\* loop appends them to its buffer and takes the complete lines out of it
RecvLoopBytes(n) ==
    /\ recv_thread = "running"
    /\ ~stop_event
    /\ sock = "connected"
    /\ n \in 1..Len(rcvbuf)
    /\ LET data == SubSeq(rcvbuf, 1, n)
           r == Drain(buffer \o data, message_queue)
       IN  /\ arrived' = Append(arrived, data)
           /\ buffer' = r.buffer
           /\ message_queue' = r.queue
    /\ rcvbuf' = SubSeq(rcvbuf, n + 1, Len(rcvbuf))
    /\ UNCHANGED <<threadvars, callvars, filevars, hubvars>>

NextStream ==
    \/ \E kind \in LineKinds : PeerWriteLine(kind)
    \/ \E n \in 1..(3 * MaxLines) : RecvLoopBytes(n)

SpecStream == InitStream /\ [][NextStream]_vars

\* what the recv() calls returned, joined
RECURSIVE Joined(_)
Joined(reads) ==
    IF reads = <<>> THEN <<>> ELSE Head(reads) \o Joined(Tail(reads))

\* the frames of a character stream: for each newline, in order, the text between
\* it and the newline before it when that text is a frame
FramesOf(s) ==
    LET ends == {i \in DOMAIN s : s[i] = NL}
        IsFrameEnd(i) == /\ i \in ends
                         /\ i > 2
                         /\ s[i - 1].half = 2
                         /\ s[i - 2] = [f |-> s[i - 1].f, half |-> 1]
                         /\ (i = 3 \/ s[i - 3] = NL)
        RECURSIVE Upto(_)
        Upto(i) == IF i = 0 THEN <<>>
                   ELSE IF IsFrameEnd(i) THEN Append(Upto(i - 1), Inbound(s[i - 1].f))
                   ELSE Upto(i - 1)
    IN  Upto(Len(s))

\* the characters after the last newline of a stream
AfterLastNL(s) ==
    LET ends == {i \in DOMAIN s : s[i] = NL}
        last == IF ends = {} THEN 0 ELSE CHOOSE i \in ends : \A j \in ends : j <= i
    IN  SubSeq(s, last + 1, Len(s))

\* C33: after any number of reads of one receive loop, however the stream was cut
\* into reads, the queue holds each well-formed frame received so far exactly once
\* and in arrival order, malformed and empty lines leave no trace, and the loop's
\* buffer holds the unfinished line.
C33_EveryFrameOnce ==
    /\ message_queue = FramesOf(Joined(arrived))
    /\ buffer = AfterLastNL(Joined(arrived))

\* a frame cut across two reads is on the queue, after a malformed line and
\* before another frame that came in the same read as its second half
C33_Witness ==
    /\ Len(arrived) >= 2
    /\ \E i \in 1..(Len(arrived) - 1) :
          /\ arrived[i][Len(arrived[i])].half = 1
          /\ arrived[i][Len(arrived[i])].f > 0
          /\ Len(arrived[i + 1]) > 3
    /\ \E i \in DOMAIN Joined(arrived) : Joined(arrived)[i] = Junk
    /\ Len(message_queue) >= 2
    /\ C33_EveryFrameOnce

\* the elements of a sequence
Range(s) == {s[i] : i \in DOMAIN s}

\* C34: no frame written to the client after REGISTERED is lost: when a step takes
\* such a frame off the connection, the frame is on the inbound queue after it.
C34_NoFrameLost ==
    [][\A i \in DOMAIN rcvbuf :
          (/\ sock = "connected" /\ sock' = "connected" /\ connects' = connects
           /\ ~register_pending
           /\ \A j \in i..Len(rcvbuf) : rcvbuf[j] # RegisteredReply
           /\ rcvbuf[i] \notin Range(rcvbuf'))
             => rcvbuf[i] \in Range(message_queue')]_vars

\* C35: a confirmed send() returns the SENT the hub wrote for the frame of that
\* very call, and recv() never returns a SENT to the application.
C35_OwnConfirmation ==
    /\ (caller = "idle" /\ returned.call = "send" /\ returned.out = "confirmed")
          => returned.frame = Confirm(sends)
    /\ \A i \in DOMAIN results : results[i].frame.type # "SENT"

\* ------------------------------------------------- message ids, character by character
\* Identities, timestamps and ids are strings, modelled as sequences of characters.
Senders == {<<"a">>, <<"b">>, <<"a", "-", "2">>}
NoText == <<>>
Digits == <<"0", "1", "2", "3", "4", "5", "6", "7", "8", "9">>
TwoDigits(n) == <<Digits[(n \div 10) + 1], Digits[(n % 10) + 1]>>

\* the hub starts at 08:59:58 of one day, so that the clock passes a full minute
\* and a full hour
StartSecond == 8 * 3600 + 59 * 60 + 58

\* _timestamp(): strftime("%Y-%m-%dT%H:%M:%S") of the clock
Timestamp(t) ==
    LET s == StartSecond + t
    IN  <<"2", "0", "2", "6", "-", "1", "1", "-", "0", "6", "T">>
          \o TwoDigits(s \div 3600) \o <<":">>
          \o TwoDigits((s \div 60) % 60) \o <<":">>
          \o TwoDigits(s % 60)

\* str.replace(ch, "")
Replace(str, ch) == SelectSeq(str, LAMBDA c : c # ch)

\* an id that leaves the seconds out
MessageIdNoSeconds(sender, timestamp) ==
    sender \o <<"-">> \o SubSeq(Replace(Replace(timestamp, ":"), "-"), 1, 13)

\* f"{sender}-{msg['timestamp'].replace(':', '').replace('-', '')}"
MessageId(sender, timestamp) ==
    sender \o <<"-">> \o Replace(Replace(timestamp, ":"), "-")

\* the "to" of a frame: a list of identities (empty when the field is absent), or
\* one identity as a bare string, kept as the one element of ids
ToFields == {[str |-> FALSE, ids |-> <<>>],
             [str |-> FALSE, ids |-> <<<<"b">>>>],
             [str |-> FALSE, ids |-> <<<<"b">>, <<"c">>>>],
             [str |-> TRUE, ids |-> <<<<"b">>>>]}

\* application frames as the client sends them; "id" is a value the client put
\* into the frame itself
AppFrames == [to : ToFields, id : {NoText, <<"x">>}]

\* recipients = msg.get("to", []); a string becomes the list of that string
Recipients(msg) == msg.to.ids

\* the frame as forwarded: from, timestamp and id are set by the hub
Stamped(msg, sender, timestamp) ==
    [type |-> "MSG", from |-> sender, timestamp |-> timestamp,
     id |-> MessageId(sender, timestamp), to |-> msg.to]

\* the SENT written to the sender: "to" is recipients or "broadcast"
Confirmation(fwd, recipients) ==
    [type |-> "SENT", id |-> fwd.id,
     to |-> IF recipients = <<>> THEN [broadcast |-> TRUE, ids |-> <<>>]
            ELSE [broadcast |-> FALSE, ids |-> recipients]]

\* _process_message for an application frame of a registered sender
ProcessStamp(sender, msg) ==
    /\ Cardinality(stamped) < MaxStamped
    /\ LET fwd == Stamped(msg, sender, Timestamp(clock))
       IN  stamped' = stamped \cup
                {[msg |-> msg, fwd |-> fwd, sent |-> Confirmation(fwd, Recipients(msg))]}
    /\ UNCHANGED <<clock, clientvars, filevars, corevars, logvars>>

\* a second passes
Tick ==
    /\ clock < MaxClock
    /\ clock' = clock + 1
    /\ UNCHANGED <<stamped, clientvars, filevars, corevars, logvars>>

NextStamp ==
    \/ \E sender \in Senders, msg \in AppFrames : ProcessStamp(sender, msg)
    \/ Tick

SpecStamp == Init /\ [][NextStamp]_vars

\* C36: the SENT carries the id of the forwarded message; two messages carry the
\* same id exactly when they have the same sender and the same timestamp, whatever
\* else the frames hold; the SENT of a directed send names the identities the
\* sender addressed.
C36_IdFromSenderAndTime ==
    /\ \A r \in stamped :
          /\ r.sent.id = r.fwd.id
          /\ r.msg.to.ids # <<>> => r.sent.to = [broadcast |-> FALSE, ids |-> r.msg.to.ids]
    /\ \A r1, r2 \in stamped :
          (r1.fwd.from = r2.fwd.from /\ r1.fwd.timestamp = r2.fwd.timestamp)
             <=> r1.fwd.id = r2.fwd.id

\* two frames of one sender stamped in the same second share the id, one of them
\* directed and holding an id of the client's own, and a third frame of the same
\* sender stamped past the hour has another id
C36_Witness ==
    \E r1, r2, r3 \in stamped :
        /\ r1 # r2
        /\ r1.fwd.id = r2.fwd.id
        /\ r1.msg.id # NoText
        /\ r1.msg.to.ids # <<>>
        /\ r3.fwd.from = r1.fwd.from
        /\ r3.fwd.timestamp = Timestamp(2)
        /\ r1.fwd.timestamp = Timestamp(1)
        /\ r3.fwd.id # r1.fwd.id
        /\ r3.sent.id = r3.fwd.id

\* C37: send() never waits for a confirmation without end and never raises for the
\* lack of one: while it waits, its return is always possible; with nothing on the
\* queue it returns the unconfirmed outcome, which is neither the confirmed one nor
\* the error; called while not connected it returns the error and writes nothing.
C37_SendReturns ==
    [][/\ caller = "send_get" => ENABLED (SendGet \/ SendTimeout)
       /\ (caller = "send_get" /\ caller' # "send_get")
            => /\ caller' = "idle"
               /\ returned'.call = "send"
               /\ returned'.out \in {"confirmed", "unknown", "unconfirmed"}
               /\ message_queue = <<>> => returned' = Returned("send", "unconfirmed", NoFrame)
       /\ (caller = "idle" /\ ~connected /\ sends' # sends)
            => /\ returned' = Returned("send", "error", NoFrame)
               /\ caller' = "idle"
               /\ unanswered' = unanswered /\ rcvbuf' = rcvbuf /\ sock' = sock]_vars

\* send() has returned unconfirmed while the hub had not written its SENT
C37_Witness ==
    /\ caller = "idle"
    /\ returned = Returned("send", "unconfirmed", NoFrame)
    /\ connected /\ sock = "connected"
    /\ unanswered > 0
    /\ message_queue = <<>>

\* C38: a REGISTER whose session_id is missing or empty changes neither view of the
\* registry, leaves the connection as it was (open when it was open, bound as it
\* was bound), and makes the hub write nothing: no REGISTERED, no JOIN. The second
\* part says it of every connection in every state: handling the frame leaves all
\* of the hub's data as it is.
C38_EmptyRegisterIgnored ==
    /\ (HandledLine /\ log.line = Reg(None))
          => /\ clients = log.before.cl
             /\ client_sessions = log.before.cs
             /\ log.writes = <<>>
             /\ log.exc = "none"
    /\ \A c \in Conns : HandleLine(Start, c, Reg(None)) = Start

\* a connection registered as one identity, with the other identity registered on
\* another connection, has sent a REGISTER without session_id
C38_Witness ==
    /\ HandledLine /\ log.line = Reg(None)
    /\ SenderId # None
    /\ \E x \in Ids : x # SenderId /\ LiveId(Snap(Start), x) /\ clients[x] \notin closed
    /\ clients[SenderId] = log.sock
    /\ log.sock \notin closed

\* ------------------------------------------------------- the file log (nclaude.py)
\* A line of messages.log is known by its position. The pointer file holds the
\* text of a number; -1 stands for the file not being there. str(len(lines))
\* read back through int() is the same number.
Writers == {1, 2}
NoPointer == -1
ReaderIdle == [at |-> "idle", all |-> FALSE, last_line |-> 0, lines |-> 0]

\* send(): flock(lock_fd, LOCK_EX) returns when nobody else holds the lock
SendLock(w) ==
    /\ flock = 0
    /\ log_lines < MaxAppended
    /\ flock' = w
    /\ UNCHANGED <<log_lines, pointer, reader, got, clientvars, filevars, corevars,
                   stampvars>>

\* send(): the line is appended (a message with line breaks in it makes n lines)
\* and leaving the with blocks closes both files, which drops the lock
SendAppend(w, n) ==
    /\ flock = w
    /\ log_lines + n <= MaxAppended
    /\ log_lines' = log_lines + n
    /\ flock' = 0
    /\ UNCHANGED <<pointer, reader, got, clientvars, filevars, corevars, stampvars>>

\* read(): last_line is the pointer file's number, or 0 when the file is not there
\* or all messages are asked for
ReadPointer(all_messages) ==
    /\ reader.at = "idle"
    /\ Len(got) < MaxReads
    /\ reader' = [at |-> "read_log", all |-> all_messages,
                  last_line |-> IF pointer # NoPointer /\ ~all_messages THEN pointer
                                ELSE 0,
                  lines |-> 0]
    /\ UNCHANGED <<log_lines, flock, pointer, got, clientvars, filevars, corevars,
                   stampvars>>

\* read(): lines = LOG.read_text().splitlines(), without the lock
ReadLog ==
    /\ reader.at = "read_log"
    /\ reader' = [reader EXCEPT !.at = "write_pointer", !.lines = log_lines]
    /\ UNCHANGED <<log_lines, flock, pointer, got, clientvars, filevars, corevars,
                   stampvars>>

\* read(): the pointer file gets len(lines) and lines[last_line:] is returned, here
\* as the positions last_line + 1 .. len(lines)
ReadReturn ==
    /\ reader.at = "write_pointer"
    /\ pointer' = reader.lines
    /\ got' = Append(got, [all |-> reader.all, first |-> reader.last_line + 1,
                           last |-> reader.lines])
    /\ reader' = ReaderIdle
    /\ UNCHANGED <<log_lines, flock, clientvars, filevars, corevars, stampvars>>

NextLog ==
    \/ \E w \in Writers : SendLock(w)
    \/ \E w \in Writers, n \in 1..2 : SendAppend(w, n)
    \/ \E all_messages \in BOOLEAN : ReadPointer(all_messages)
    \/ ReadLog
    \/ ReadReturn

SpecLog == Init /\ [][NextLog]_vars

\* the reads without "all" that returned line i
NewReadsOf(i) == {k \in DOMAIN got : ~got[k].all /\ got[k].first <= i /\ i <= got[k].last}

\* C39: whatever the interleaving of appends and the session's reads, the stored
\* offset never exceeds the number of lines in the log, no line is returned by two
\* reads without "all", and none is skipped: between reads every line below the
\* stored offset, which no later read without "all" returns, has been returned by
\* one.
C39_EachLineOnce ==
    /\ pointer <= log_lines
    /\ \A i \in 1..log_lines : Cardinality(NewReadsOf(i)) <= 1
    /\ reader.at = "idle" /\ pointer # NoPointer
          => \A i \in 1..pointer : NewReadsOf(i) # {}
====
